---- MODULE Spec2Model ----
(***************************************************************************)
(* A model of src/custom_tts.py: the CustomTTS synthesis engine (an async  *)
(* generator that re-chunks a WAV asset into 20 ms frames) and TTSStream,  *)
(* the utterance stream that accumulates text, queues utterances and       *)
(* drives the engine from its own async iteration.                         *)
(*                                                                         *)
(* Every action is one run of a coroutine between two suspension points    *)
(* (an await that really suspends, or a yield to the consumer): asyncio    *)
(* runs such a stretch atomically.                                         *)
(***************************************************************************)
EXTENDS Integers, Sequences, FiniteSets, TLC

\* ------------------------------------------------------------------ bounds
MaxText == 4      \* longest accumulated text, in characters
MaxEnds == 2      \* end_input() calls per stream
MaxCalls == 2     \* direct synthesize() calls on the engine
MaxStops == 2     \* aclose()/stop() calls made by the callers
MaxFrames == 3    \* longest asset, in samples per channel
MaxCallbacks == 2 \* callbacks registered for one event
MaxEmits == 2     \* emit() calls made on the engine from outside

\* --------------------------------------------------------------- constants
DefaultSampleRate == 24000
DefaultNumChannels == 1

Streams == {"s1", "s2"}
Direct == "direct"
Callers == Streams \cup {Direct}

GreetingsFile == "greetings.wav"
OtherFile == "other.wav"
Files == {GreetingsFile, OtherFile}

\* The sample rates, channel counts and lengths an asset on disk may have.
Rates == {25, 50, 75, 100}
Channels == {1, 2}
Assets == [rate : Rates, channels : Channels, nframes : 0..MaxFrames]

\* A file that exists and that wave.open() rejects (it raises wave.Error):
\* it has no header to read a format from.
NotWave == [riff |-> FALSE]
IsWave(asset) == "rate" \in DOMAIN asset

\* A WAVE file whose header gives a frame rate of 0: wave.open() accepts it.
ZeroRate == [rate |-> 0, channels |-> 1, nframes |-> MaxFrames]

\* An 8-bit WAVE file; the other assets are 16-bit.
EightBit == [rate |-> 50, channels |-> 1, nframes |-> MaxFrames, sampwidth |-> 1]

\* getsampwidth(): the bytes of one sample.
SampleWidth(asset) == IF "sampwidth" \in DOMAIN asset THEN asset.sampwidth ELSE 2

\* The bytes that readframes(getnframes()) returns.
FrameBytes(asset) == asset.nframes * asset.channels * SampleWidth(asset)

\* The events of the emitter and the callbacks subscribed to them: one that
\* returns and one that raises an Exception.
MetricsCollected == "metrics_collected"
OtherEvent == "other_event"
Events == {MetricsCollected, OtherEvent}
Callbacks == {[name |-> "good", raises |-> FALSE], [name |-> "bad", raises |-> TRUE]}

Min(a, b) == IF a < b THEN a ELSE b

\* The element of a one-element set: The({F(x) : x \in {e}}) is F(e) with e
\* evaluated once.
The(S) == CHOOSE x \in S : TRUE

VARIABLES
  asset_dir,          \* the files of audio_path: filename -> asset
  sample_rate,        \* CustomTTS.sample_rate
  num_channels,       \* CustomTTS.num_channels
  current_audio,      \* CustomTTS._current_audio
  agent_output,       \* CustomTTS._agent_output
  events,             \* SimpleEventEmitter._events: event -> its callbacks
  invoked,            \* the calls the emitter made of its callbacks, in order
  emit_calls,         \* history: emit() calls made from outside the engine
  stop_calls,         \* history: calls of CustomTTS.stop()
  syn,                \* caller -> its synthesize() generator
  ncalls,             \* history: caller -> synthesize() calls it has made
  emitted,            \* history: caller -> the metrics events its calls emitted
                      \* and the frames handed to it, in order
  text_queue,         \* TTSStream.text_queue
  ended,              \* TTSStream._ended
  closed,             \* TTSStream._closed
  accumulated_text,   \* TTSStream._accumulated_text
  iter_pc,            \* where the stream's __aiter__ generator is suspended
  active,             \* the streams that exist
  queue_ids,          \* history: the end_input() call that queued each entry
  nends,              \* history: stream -> end_input() calls
  popped,             \* history: stream -> the entries its iteration popped
  pushed,             \* history: stream -> the fragments pushed while it was fresh
  closes,             \* history: stream -> aclose() calls, by who made them
  late                \* history: stream -> the methods called on it after its
                      \* first aclose()

engine_vars == <<sample_rate, num_channels, current_audio, agent_output, stop_calls,
                 events, invoked, emit_calls>>
call_vars == <<syn, ncalls, emitted>>
stream_vars == <<text_queue, ended, closed, accumulated_text, iter_pc>>
history_vars == <<queue_ids, nends, popped, pushed, closes, late>>
vars == <<asset_dir, engine_vars, call_vars, stream_vars, active, history_vars>>

\* ------------------------------------------------------------ the emitter

\* on(event, callback): the registrations after it.
On(evs, event, cb) ==
  IF event \notin DOMAIN evs
  THEN evs @@ (event :> <<cb>>)
  ELSE [evs EXCEPT ![event] = Append(@, cb)]

\* What emit() passes to a callback: data, or nothing when data is None.
NoData == [kind |-> "none"]
CallbackArgs(data) == IF data = NoData THEN <<>> ELSE <<data>>

\* One call of a callback; raised tells that it ended in an Exception,
\* which emit() caught and logged.
Invocation(cb, args) == [callback |-> cb.name, args |-> args, raised |-> cb.raises]

\* A faulty loop that the first Exception of a callback ends.
RECURSIVE CallEachUntilRaise(_, _)
CallEachUntilRaise(cbs, args) ==
  IF cbs = <<>> THEN <<>>
  ELSE IF Head(cbs).raises THEN <<Invocation(Head(cbs), args)>>
  ELSE <<Invocation(Head(cbs), args)>> \o CallEachUntilRaise(Tail(cbs), args)

\* Lines 40-47: the callbacks are called in the order of the list, each in
\* its own try block.
RECURSIVE CallEach(_, _)
CallEach(cbs, args) ==
  IF cbs = <<>> THEN <<>>
  ELSE <<Invocation(Head(cbs), args)>> \o CallEach(Tail(cbs), args)

\* emit(event, data): the calls it makes.
Emit(evs, event, data) ==
  IF event \in DOMAIN evs THEN CallEach(evs[event], CallbackArgs(data)) ELSE <<>>

\* What is passed to emit() from outside: some object, or None.
SomeData == [kind |-> "data", item |-> [value |-> 1]]
DataValues == {NoData, SomeData}

\* tts.on(event, callback), or tts.on(event) used as a decorator.
Register(event, cb) ==
  /\ event \in DOMAIN events => Len(events[event]) < MaxCallbacks
  /\ events' = On(events, event, cb)
  /\ UNCHANGED <<asset_dir, sample_rate, num_channels, current_audio, agent_output,
                 stop_calls, invoked, emit_calls, call_vars, stream_vars, active,
                 history_vars>>

\* tts.emit(event, data), called from outside the engine.
EmitCall(event, data) ==
  /\ emit_calls < MaxEmits
  /\ emit_calls' = emit_calls + 1
  /\ invoked' = invoked \o Emit(events, event, data)
  /\ UNCHANGED <<asset_dir, sample_rate, num_channels, current_audio, agent_output,
                 stop_calls, events, call_vars, stream_vars, active, history_vars>>

\* ------------------------------------------------------------- the engine

\* int(self.sample_rate * 0.02): the float product truncated. It equals
\* (rate * 2) \div 100 for every rate from 0 to 400000.
FrameSize(rate) == (rate * 2) \div 100

\* np.frombuffer(readframes(nframes), int16): one sample for every two
\* bytes, so nframes * channels samples of a 16-bit file. Sample k of the
\* buffer is the number k, so no sample is zero.
RECURSIVE Counting(_)
Counting(n) == IF n <= 0 THEN <<>> ELSE Append(Counting(n - 1), n)

Samples(asset) == Counting(FrameBytes(asset) \div 2)

\* Line 155 divides by the frame rate (ZeroDivisionError when it is 0) and
\* np.frombuffer raises ValueError on an odd number of bytes.
ReadFails(asset) == asset.rate = 0 \/ FrameBytes(asset) % 2 # 0

\* audio_data[lo:hi] of Python (lo is 0-based, hi is exclusive and clipped).
Slice(data, lo, hi) == SubSeq(data, lo + 1, Min(hi, Len(data)))

\* np.pad(audio_data, (0, n)) appends n zeros.
RECURSIVE Zeros(_)
Zeros(n) == IF n <= 0 THEN <<>> ELSE Append(Zeros(n - 1), 0)

\* A faulty _create_audio_frame that does not pad.
CreateAudioFrameUnpadded(audio_data, frame_size, rate, chans) ==
  [data |-> audio_data,
   samples_per_channel |-> IF frame_size <= 0 THEN Len(audio_data) ELSE frame_size,
   sample_rate |-> rate, num_channels |-> chans]

CreateAudioFrame(audio_data, frame_size, rate, chans) ==
  LET fs == IF frame_size <= 0 THEN Len(audio_data) ELSE frame_size
      padded == IF Len(audio_data) < fs * chans
                THEN audio_data \o Zeros(fs * chans - Len(audio_data))
                ELSE audio_data
  IN [data |-> padded, samples_per_channel |-> fs,
      sample_rate |-> rate, num_channels |-> chans]

\* duration_ms is the quotient nframes / rate times 1000, kept as a fraction.
TTSMetrics(filename, asset) ==
  [num_chars |-> Len(filename),
   duration_ms |-> [num |-> asset.nframes * 1000, den |-> asset.rate],
   cost_usd |-> 0]

\* What a run emits: a metrics event to the subscribers, or a frame to the
\* consumer.
Metrics(m) == [kind |-> "metrics", item |-> m]
Frame(f) == [kind |-> "frame", item |-> f]
IsFrame(e) == e.kind = "frame"
IsMetrics(e) == e.kind = "metrics"

NoCall ==
  [pc |-> "none", filename |-> "", audio_data |-> <<>>, i |-> 0,
   frame_size |-> 0, step |-> 0, nframes |-> 0, emitted |-> 0,
   raised |-> FALSE, stopped |-> FALSE, after_stop |-> 0, wav_open |-> FALSE]

\* wave.open() returned: the call holds an open file.
WaveOpen(call) == [call EXCEPT !.wav_open = TRUE]

\* A faulty reading that leaves the file open.
WithExitLeavesOpen(call) == call

\* The with block is left (lines 152-156), normally or by an exception: the
\* file is closed.
WithExit(call) == [call EXCEPT !.wav_open = FALSE]

\* The engine after wave.open() has been read: lines 153-154 overwrite the
\* format, and _agent_output is what the run leaves behind.
Decoded(eng, rate, chans, agent) ==
  [eng EXCEPT !.sample_rate = rate, !.num_channels = chans, !.agent_output = agent]

\* What one run of synthesize() between two suspensions does: the engine
\* after it, the generator after it, and what it emitted, in order: metrics
\* events and the frame it yielded (none or one, and then the last).
Ran(eng, call, emits) == [eng |-> eng, call |-> call, emits |-> emits]

YieldedFrame(r) == \E k \in 1..Len(r.emits) : IsFrame(r.emits[k])

\* A faulty order: the first frame is yielded before the metrics event.
FrameThenMetrics(metrics, frame) == <<Frame(frame), Metrics(metrics)>>

\* Lines 164-174: emit("metrics_collected", metrics) comes before the loop
\* that yields the frames.
MetricsThenFrame(metrics, frame) == <<Metrics(metrics), Frame(frame)>>

\* A generator that is over: its finally clause has run.
Finished(call) == [call EXCEPT !.pc = "done"]

\* One more frame yielded by a generator; after_stop counts the frames it
\* yields after a stop() that found it between two frames.
Yielded(call, i) ==
  [call EXCEPT !.pc = "yielded", !.i = i, !.nframes = @ + 1,
               !.after_stop = IF call.stopped THEN @ + 1 ELSE @]

\* A faulty handling of a missing file that falls back to the default format.
FileNotFoundResets(eng, call) ==
  Ran([eng EXCEPT !.sample_rate = DefaultSampleRate,
                  !.num_channels = DefaultNumChannels,
                  !.agent_output = "None"], Finished(call), <<>>)

\* Lines 148-150: the file is not there; the error is logged and the
\* generator returns through its finally clause.
FileNotFound(eng, call) ==
  Ran([eng EXCEPT !.agent_output = "None"], Finished(call), <<>>)

\* wave.open() raises on a file that is not a WAVE file (it closes what it
\* opened): caught at line 177, logged, and the finally clause runs. The
\* engine's format is as it was.
OpenError(eng, call) ==
  Ran([eng EXCEPT !.agent_output = "None"], Finished([call EXCEPT !.raised = TRUE]), <<>>)

\* An exception inside the with block, at line 155 or 156: lines 153-154
\* have overwritten the engine's format, the with block closes the file,
\* nothing is emitted, and the except and finally clauses run.
ReadError(eng, call, rate, chans) ==
  Ran(Decoded(eng, rate, chans, "None"),
      Finished([WithExit(WaveOpen(call)) EXCEPT !.raised = TRUE]), <<>>)

\* Line 164: the engine after emit("metrics_collected", metrics).
Emitted(eng, metrics) ==
  [eng EXCEPT !.invoked = @ \o Emit(eng.events, MetricsCollected, Metrics(metrics))]

\* The first __anext__ of synthesize(filename): everything up to the first
\* yield, or to the end of the generator when it yields nothing.
SynthesizeStart(eng, dir, filename) ==
  LET call0 == [NoCall EXCEPT !.filename = filename]
  IN IF filename \notin DOMAIN dir
     THEN FileNotFound(eng, call0)
     ELSE IF ~IsWave(dir[filename])
     THEN OpenError(eng, call0)
     ELSE IF ReadFails(dir[filename])
     THEN ReadError(eng, call0, dir[filename].rate, dir[filename].channels)
     ELSE
       LET asset == dir[filename]
           rate == asset.rate
           chans == asset.channels
           audio_data == Samples(asset)
           metrics == TTSMetrics(filename, asset)
           frame_size == FrameSize(rate)
           step == frame_size * chans
           call1 == [WithExit(WaveOpen(call0))
                       EXCEPT !.audio_data = audio_data, !.emitted = 1,
                              !.frame_size = frame_size, !.step = step]
           eng1 == Emitted(eng, metrics)
       IN IF step = 0
          THEN \* range() raises ValueError on a zero step: caught, logged
            Ran(Decoded(eng1, rate, chans, "None"),
                Finished([call1 EXCEPT !.raised = TRUE]), <<Metrics(metrics)>>)
          ELSE IF Len(audio_data) = 0
          THEN Ran(Decoded(eng1, rate, chans, "None"), Finished(call1),
                   <<Metrics(metrics)>>)
          ELSE
            LET chunk == Slice(audio_data, 0, frame_size * chans)
                frame == CreateAudioFrame(chunk, frame_size, rate, chans)
            IN Ran(Decoded(eng1, rate, chans, "True"), Yielded(call1, 0),
                   MetricsThenFrame(metrics, frame))

\* synthesize() resumed after asyncio.sleep(0.02): the next turn of its for
\* loop, which reads the engine's sample_rate and num_channels as they are
\* now.
SynthesizeNext(eng, call) ==
  LET i == call.i + call.step
  IN IF i >= Len(call.audio_data)
     THEN Ran([eng EXCEPT !.agent_output = "None"], Finished(call), <<>>)
     ELSE
       LET chunk == Slice(call.audio_data, i, i + call.frame_size * eng.num_channels)
           frame == CreateAudioFrame(chunk, call.frame_size,
                                     eng.sample_rate, eng.num_channels)
       IN Ran(eng, Yielded(call, i), <<Frame(frame)>>)

\* CustomTTS.stop(): _current_audio is never assigned anything but None, so
\* the first branch never runs and only _agent_output changes.
EngineStop(eng) ==
  [(IF eng.current_audio # "None" THEN [eng EXCEPT !.current_audio = "None"] ELSE eng)
     EXCEPT !.agent_output = "None"]

TheEngine ==
  [sample_rate |-> sample_rate, num_channels |-> num_channels,
   current_audio |-> current_audio, agent_output |-> agent_output,
   events |-> events, invoked |-> invoked]

SetEngine(eng) ==
  /\ sample_rate' = eng.sample_rate
  /\ num_channels' = eng.num_channels
  /\ current_audio' = eng.current_audio
  /\ agent_output' = eng.agent_output
  /\ events' = eng.events
  /\ invoked' = eng.invoked

\* What a run emitted as the history keeps it: with the call it is of.
RECURSIVE Tagged(_, _)
Tagged(emits, n) ==
  IF emits = <<>> THEN <<>>
  ELSE <<[kind |-> Head(emits).kind, item |-> Head(emits).item, call |-> n]>>
       \o Tagged(Tail(emits), n)

\* History: the generators that a stop() finds between two of their frames.
MarkStopped(s) ==
  [c \in Callers |->
     IF s[c].pc \in {"yielded", "sleeping"}
        /\ s[c].i + s[c].step < Len(s[c].audio_data)
     THEN [s[c] EXCEPT !.stopped = TRUE] ELSE s[c]]

\* ------------------------------------------------- direct use of the engine

\* async for frame in tts.synthesize(filename): the first __anext__.
DirectSynthesize(filename) ==
  /\ syn[Direct].pc \in {"none", "done"}
  /\ ncalls[Direct] < MaxCalls
  /\ LET r == SynthesizeStart(TheEngine, asset_dir, filename)
         n == ncalls[Direct] + 1
     IN /\ SetEngine(r.eng)
        /\ syn' = [syn EXCEPT ![Direct] = r.call]
        /\ ncalls' = [ncalls EXCEPT ![Direct] = n]
        /\ emitted' = [emitted EXCEPT ![Direct] = @ \o Tagged(r.emits, n)]
  /\ UNCHANGED <<asset_dir, stop_calls, emit_calls, stream_vars, active, history_vars>>

\* The consumer asks for the next frame: synthesize() resumes after its
\* yield and suspends in asyncio.sleep(0.02).
DirectPull ==
  /\ syn[Direct].pc = "yielded"
  /\ syn' = [syn EXCEPT ![Direct].pc = "sleeping"]
  /\ UNCHANGED <<asset_dir, engine_vars, ncalls, emitted,
                 stream_vars, active, history_vars>>

\* The pacing sleep is over.
DirectWake ==
  /\ syn[Direct].pc = "sleeping"
  /\ LET r == SynthesizeNext(TheEngine, syn[Direct])
         n == ncalls[Direct]
     IN /\ SetEngine(r.eng)
        /\ syn' = [syn EXCEPT ![Direct] = r.call]
        /\ emitted' = [emitted EXCEPT ![Direct] = @ \o Tagged(r.emits, n)]
  /\ UNCHANGED <<asset_dir, stop_calls, emit_calls, ncalls, stream_vars, active,
                 history_vars>>

\* await tts.stop(), called on the engine itself.
DirectStop ==
  /\ stop_calls < MaxStops
  /\ SetEngine(EngineStop(TheEngine))
  /\ stop_calls' = stop_calls + 1
  /\ syn' = MarkStopped(syn)
  /\ UNCHANGED <<asset_dir, emit_calls, ncalls, emitted, stream_vars, active,
                 history_vars>>

\* -------------------------------------------------------------- the text

\* Text is a sequence of one-character strings.
IsSpace(ch) == ch \in {" ", "\n", "\t"}

RECURSIVE LStrip(_)
LStrip(text) ==
  IF text # <<>> /\ IsSpace(Head(text)) THEN LStrip(Tail(text)) ELSE text

RECURSIVE RStrip(_)
RStrip(text) ==
  IF text # <<>> /\ IsSpace(text[Len(text)])
  THEN RStrip(SubSeq(text, 1, Len(text) - 1)) ELSE text

\* str.strip()
Strip(text) == RStrip(LStrip(text))

LowerChar(ch) == CASE ch = "H" -> "h" [] ch = "Y" -> "y" [] OTHER -> ch

\* str.lower()
RECURSIVE Lower(_)
Lower(text) ==
  IF text = <<>> THEN <<>> ELSE <<LowerChar(Head(text))>> \o Lower(Tail(text))

\* greeting in text
Contains(text, word) ==
  \E k \in 0..(Len(text) - Len(word)) : SubSeq(text, k + 1, k + Len(word)) = word

Greetings ==
  {<<"h", "e", "l", "l", "o">>, <<"h", "i">>, <<"h", "e", "y">>,
   <<"g", "r", "e", "e", "t", "i", "n", "g", "s">>}

GetAudioFilename(text) ==
  LET t == Strip(Lower(text))
  IN IF \E greeting \in Greetings : Contains(t, greeting)
     THEN GreetingsFile
     ELSE GreetingsFile

\* The fragments a caller pushes.
Fragments == {<<>>, <<" ">>, <<"H", "i">>, <<" ", "y">>}

\* ------------------------------------------------------------- the stream

\* History: a call of a method on stream s, noted when the stream has been
\* closed before.
Noted(s, method) ==
  [late EXCEPT ![s] = IF closes[s].user + closes[s].iter > 0
                      THEN @ \cup {method} ELSE @]

\* A faulty push_text that tests _ended only.
PushTextIgnoresClosed(is_ended, is_closed, acc, text) ==
  IF is_ended THEN acc ELSE acc \o text

\* push_text: the accumulator after it.
PushTextResult(is_ended, is_closed, acc, text) ==
  IF is_ended \/ is_closed THEN acc ELSE acc \o text

\* A faulty end_input that queues the accumulated text as it is.
EndInputQueueUnstripped(queue, acc) ==
  IF Strip(acc) # <<>> THEN Append(queue, acc) ELSE queue

\* A faulty end_input that tests the accumulated text unstripped.
EndInputQueueBlank(queue, acc) ==
  IF acc # <<>> THEN Append(queue, Strip(acc)) ELSE queue

\* end_input: the queue after it.
EndInputQueue(queue, acc) ==
  IF Strip(acc) # <<>> THEN Append(queue, Strip(acc)) ELSE queue

\* A faulty pop: text_queue.pop() takes the newest entry.
PopNewest(queue) == Len(queue)

\* text_queue.popleft(): the place of the entry it takes.
PopIndex(queue) == 1

RemoveAt(queue, k) == SubSeq(queue, 1, k - 1) \o SubSeq(queue, k + 1, Len(queue))

\* The test of the while loop of __aiter__.
LoopRuns(is_ended, is_closed, queue) == (~is_ended \/ queue # <<>>) /\ ~is_closed

\* A faulty test that drops the frame when any stream is closed.
ForwardsUnlessAnyClosed(is_closed) == \A t \in Streams : ~closed[t]

\* Lines 99-100: a frame is forwarded unless the stream is closed.
Forwards(is_closed) == ~is_closed

\* A faulty finally clause that calls aclose() whatever _closed is.
FinallyAlwaysCloses(is_closed) == TRUE

\* The finally clause of __aiter__ calls aclose() unless the stream is closed.
FinallyCloses(is_closed) == ~is_closed

\* A faulty aclose() that leaves the accumulator as it is.
AccumulatorKept(acc) == acc

\* Line 85: aclose() empties the accumulator.
AccumulatorCleared(acc) == <<>>

PushText(s, text) ==
  /\ s \in active
  /\ Len(accumulated_text[s]) + Len(text) <= MaxText
  /\ Len(pushed[s]) + Len(text) <= MaxText
  /\ accumulated_text' =
       [accumulated_text EXCEPT ![s] = PushTextResult(ended[s], closed[s], @, text)]
  /\ pushed' = [pushed EXCEPT ![s] =
                  IF nends[s] = 0 /\ closes[s].user = 0 /\ closes[s].iter = 0
                  THEN @ \o text ELSE @]
  /\ late' = Noted(s, "push_text")
  /\ UNCHANGED <<asset_dir, engine_vars, call_vars, text_queue, ended, closed,
                 iter_pc, active, queue_ids, nends, popped, closes>>

EndInput(s) ==
  /\ s \in active
  /\ nends[s] < MaxEnds
  /\ ended' = [ended EXCEPT ![s] = TRUE]
  /\ text_queue' = [text_queue EXCEPT ![s] = EndInputQueue(@, accumulated_text[s])]
  /\ nends' = [nends EXCEPT ![s] = @ + 1]
  /\ queue_ids' = [queue_ids EXCEPT ![s] =
                     IF Len(text_queue'[s]) > Len(text_queue[s])
                     THEN Append(@, nends[s] + 1) ELSE @]
  /\ late' = Noted(s, "end_input")
  /\ UNCHANGED <<asset_dir, engine_vars, call_vars, closed, accumulated_text,
                 iter_pc, active, popped, pushed, closes>>

\* await stream.aclose(), called by the stream's user.
AClose(s) ==
  /\ s \in active
  /\ stop_calls < MaxStops
  /\ closed' = [closed EXCEPT ![s] = TRUE]
  /\ text_queue' = [text_queue EXCEPT ![s] = <<>>]
  /\ queue_ids' = [queue_ids EXCEPT ![s] = <<>>]
  /\ accumulated_text' = [accumulated_text EXCEPT ![s] = AccumulatorCleared(@)]
  /\ SetEngine(EngineStop(TheEngine))
  /\ stop_calls' = stop_calls + 1
  /\ syn' = MarkStopped(syn)
  /\ closes' = [closes EXCEPT ![s].user = @ + 1]
  /\ late' = Noted(s, "aclose")
  /\ UNCHANGED <<asset_dir, emit_calls, ncalls, emitted, ended, iter_pc,
                 active, nends, popped, pushed>>

\* A faulty iteration that takes the accumulated text for an utterance as
\* soon as there is some.
LoopStateReadsAccumulator(s, eng, call) ==
  LET early == text_queue[s] = <<>> /\ accumulated_text[s] # <<>>
  IN [eng |-> eng,
      queue |-> IF early THEN <<accumulated_text[s]>> ELSE text_queue[s],
      ids |-> IF early THEN <<1>> ELSE queue_ids[s],
      call |-> call, ncalls |-> ncalls[s], popped |-> popped[s],
      emits |-> <<>>, pc |-> "run"]

\* The state one run of __aiter__ works on, and where the run suspends: pc
\* is "poll" (in asyncio.sleep(0.1)), "yielded" (a frame handed to the
\* consumer) or "done" (the loop is over).
LoopState(s, eng, call) ==
  [eng |-> eng, queue |-> text_queue[s], ids |-> queue_ids[s], call |-> call,
   ncalls |-> ncalls[s], popped |-> popped[s], emits |-> <<>>, pc |-> "run"]

\* What of a run of synthesize() reaches the outside when its frame is
\* dropped: the metrics events.
Dropped(emits) == SelectSeq(emits, IsMetrics)

\* __aiter__ from the test of its while loop to its next suspension. An
\* utterance whose synthesize() yields nothing is followed by the next turn
\* of the loop in the same run.
RECURSIVE RunLoop(_, _, _, _)
RunLoop(st, is_ended, is_closed, dir) ==
  IF LoopRuns(is_ended, is_closed, st.queue)
  THEN IF st.queue = <<>>
       THEN [st EXCEPT !.pc = "poll"]
       ELSE
         LET k == PopIndex(st.queue)
             text == st.queue[k]
             id == st.ids[k]
             audio_filename == GetAudioFilename(text)
         IN The({
              LET st1 == [st EXCEPT !.eng = r.eng, !.queue = RemoveAt(@, k),
                                    !.ids = RemoveAt(@, k), !.call = r.call,
                                    !.ncalls = @ + 1, !.popped = Append(@, id)]
              IN IF YieldedFrame(r) /\ Forwards(is_closed)
                 THEN [st1 EXCEPT !.emits = @ \o Tagged(r.emits, id),
                                  !.pc = "yielded"]
                 ELSE The({RunLoop(st2, is_ended, is_closed, dir) :
                             st2 \in {[st1 EXCEPT !.emits =
                                         @ \o Tagged(Dropped(r.emits), id)]}})
              : r \in {SynthesizeStart(st.eng, dir, audio_filename)}})
  ELSE [st EXCEPT !.pc = "done"]

\* The run's effect on the stream and the engine. A run that ends the loop
\* goes through the finally clause, whose aclose() sets _closed, clears the
\* queue and the accumulator and calls the engine's stop().
Advance(s, st) ==
  LET closing == st.pc = "done" /\ FinallyCloses(closed[s])
      syn1 == [syn EXCEPT ![s] = st.call]
  IN /\ SetEngine(IF closing THEN EngineStop(st.eng) ELSE st.eng)
     /\ syn' = IF closing THEN MarkStopped(syn1) ELSE syn1
     /\ stop_calls' = IF closing THEN stop_calls + 1 ELSE stop_calls
     /\ closed' = IF closing THEN [closed EXCEPT ![s] = TRUE] ELSE closed
     /\ text_queue' = [text_queue EXCEPT ![s] = IF closing THEN <<>> ELSE st.queue]
     /\ queue_ids' = [queue_ids EXCEPT ![s] = IF closing THEN <<>> ELSE st.ids]
     /\ accumulated_text' =
          IF closing THEN [accumulated_text EXCEPT ![s] = AccumulatorCleared(@)]
          ELSE accumulated_text
     /\ closes' = IF closing THEN [closes EXCEPT ![s].iter = @ + 1] ELSE closes
     /\ iter_pc' = [iter_pc EXCEPT ![s] = st.pc]
     /\ ncalls' = [ncalls EXCEPT ![s] = st.ncalls]
     /\ popped' = [popped EXCEPT ![s] = st.popped]
     /\ emitted' = [emitted EXCEPT ![s] = @ \o st.emits]
     /\ UNCHANGED <<asset_dir, emit_calls, ended, active, nends, pushed, late>>

\* The consumer's first __anext__ on the stream.
IterStart(s) ==
  /\ s \in active
  /\ iter_pc[s] = "init"
  /\ \E st0 \in {LoopState(s, TheEngine, syn[s])} :
       \E st \in {RunLoop(st0, ended[s], closed[s], asset_dir)} : Advance(s, st)

\* asyncio.sleep(0.1) is over: the loop is tested again.
IterPoll(s) ==
  /\ s \in active
  /\ iter_pc[s] = "poll"
  /\ \E st0 \in {LoopState(s, TheEngine, syn[s])} :
       \E st \in {RunLoop(st0, ended[s], closed[s], asset_dir)} : Advance(s, st)

\* The consumer asks for the next frame: __aiter__ resumes after its yield,
\* synthesize() after its own, and suspends in asyncio.sleep(0.02).
IterPull(s) ==
  /\ s \in active
  /\ iter_pc[s] = "yielded"
  /\ iter_pc' = [iter_pc EXCEPT ![s] = "pace"]
  /\ syn' = [syn EXCEPT ![s].pc = "sleeping"]
  /\ UNCHANGED <<asset_dir, engine_vars, ncalls, emitted,
                 text_queue, ended, closed, accumulated_text, active, history_vars>>

\* __aiter__ from the return of synthesize()'s __anext__ (r is what that
\* run did, cur the utterance) to its next suspension.
PaceRun(s, cur, r) ==
  LET st == LoopState(s, r.eng, r.call)
  IN IF YieldedFrame(r) /\ Forwards(closed[s])
     THEN [st EXCEPT !.emits = Tagged(r.emits, cur), !.pc = "yielded"]
     ELSE The({RunLoop(st2, ended[s], closed[s], asset_dir) :
                 st2 \in {[st EXCEPT !.emits = Tagged(Dropped(r.emits), cur)]}})

\* asyncio.sleep(0.02) is over: synthesize() yields its next frame, which
\* the stream forwards or (closed) drops, or ends, and the loop goes on.
IterPace(s) ==
  /\ s \in active
  /\ iter_pc[s] = "pace"
  /\ \E r \in {SynthesizeNext(TheEngine, syn[s])} :
       \E st \in {PaceRun(s, popped[s][Len(popped[s])], r)} : Advance(s, st)

\* The generator that a break left suspended at its yield is finalized by
\* the event loop: its finally clause runs.
SynthesizeFinalize(s) ==
  /\ s \in active
  /\ iter_pc[s] = "done"
  /\ syn[s].pc = "yielded"
  /\ syn' = [syn EXCEPT ![s] = Finished(@)]
  /\ agent_output' = "None"
  /\ UNCHANGED <<asset_dir, sample_rate, num_channels, current_audio, stop_calls,
                 events, invoked, emit_calls,
                 ncalls, emitted, stream_vars, active, history_vars>>

\* ---------------------------------------------------------- specifications

InitEngine ==
  /\ sample_rate = DefaultSampleRate
  /\ num_channels = DefaultNumChannels
  /\ current_audio = "None"
  /\ agent_output = "None"
  /\ stop_calls = 0
  /\ events = [e \in {} |-> <<>>]
  /\ invoked = <<>>
  /\ emit_calls = 0
  /\ syn = [c \in Callers |-> NoCall]
  /\ ncalls = [c \in Callers |-> 0]
  /\ emitted = [c \in Callers |-> <<>>]

InitStreams ==
  /\ text_queue = [s \in Streams |-> <<>>]
  /\ ended = [s \in Streams |-> FALSE]
  /\ closed = [s \in Streams |-> FALSE]
  /\ accumulated_text = [s \in Streams |-> <<>>]
  /\ iter_pc = [s \in Streams |-> "init"]
  /\ queue_ids = [s \in Streams |-> <<>>]
  /\ nends = [s \in Streams |-> 0]
  /\ popped = [s \in Streams |-> <<>>]
  /\ pushed = [s \in Streams |-> <<>>]
  /\ closes = [s \in Streams |-> [user |-> 0, iter |-> 0]]
  /\ late = [s \in Streams |-> {}]

\* The asset directory holds greetings.wav or not, with any format; the
\* other file is never there.
AssetDirs == {[f \in {} |-> 0]} \cup [{GreetingsFile} -> Assets]

InitSynth ==
  /\ asset_dir \in AssetDirs
  /\ InitEngine
  /\ InitStreams
  /\ active = {}

NextSynth ==
  \/ \E f \in Files : DirectSynthesize(f)
  \/ DirectPull
  \/ DirectWake
  \/ DirectStop

\* The engine used alone, by a caller that iterates synthesize() itself.
SpecSynth == InitSynth /\ [][NextSynth]_vars

StreamStep(s) ==
  \/ \E text \in Fragments : PushText(s, text)
  \/ EndInput(s)
  \/ AClose(s)
  \/ IterStart(s)
  \/ IterPoll(s)
  \/ IterPull(s)
  \/ IterPace(s)
  \/ SynthesizeFinalize(s)

Init ==
  /\ asset_dir \in AssetDirs
  /\ InitEngine
  /\ InitStreams
  /\ active = {"s1"}

Next == \E s \in Streams : StreamStep(s)

\* One stream, its user and its consumer.
Spec == Init /\ [][Next]_vars

\* A step of the stream's iteration: the consumer asks for a frame, or a
\* sleep of the iteration ends.
IterStep(s) == IterStart(s) \/ IterPoll(s) \/ IterPull(s) \/ IterPace(s)

\* The asset directories of the runs checked for termination: no file, an
\* empty one or a longest one, mono, at every rate.
LiveAssetDirs ==
  {dir \in AssetDirs :
     \A f \in DOMAIN dir : dir[f].channels = 1 /\ dir[f].nframes \in {0, MaxFrames}}

LiveInit ==
  /\ asset_dir \in LiveAssetDirs
  /\ InitEngine
  /\ InitStreams
  /\ active = {"s1"}

\* One stream whose consumer keeps asking for frames and whose sleeps end.
LiveSpec == LiveInit /\ [][Next]_vars /\ WF_vars(IterStep("s1"))

\* The formats of the assets of an engine that several callers share: mono
\* at 50 Hz and stereo at 100 Hz, of the greatest length.
Formats ==
  {[rate |-> 50, channels |-> 1, nframes |-> MaxFrames],
   [rate |-> 100, channels |-> 2, nframes |-> MaxFrames]}

\* A WAVE file whose 20 ms frame has no sample.
Slow == [rate |-> 25, channels |-> 1, nframes |-> MaxFrames]

\* greetings.wav is there; the other file is missing, or is there, and then
\* it may be a file that synthesize() fails on.
SharedAssetDirs ==
  [{GreetingsFile} -> Formats]
  \cup {dir \in [Files -> Formats \cup {Slow, NotWave, ZeroRate, EightBit}] :
          dir[GreetingsFile] \in Formats}

SharedInit ==
  /\ asset_dir \in SharedAssetDirs
  /\ InitEngine
  /\ InitStreams
  /\ active = {"s1"}

SharedNext ==
  \/ PushText("s1", <<"H", "i">>)
  \/ EndInput("s1")
  \/ IterStart("s1")
  \/ IterPoll("s1")
  \/ IterPull("s1")
  \/ IterPace("s1")
  \/ \E f \in Files : DirectSynthesize(f)
  \/ DirectPull
  \/ DirectWake
  \/ DirectStop

\* One engine shared by a stream that its consumer drains and by a caller
\* that iterates synthesize() itself, each on its own file.
SpecShared == SharedInit /\ [][SharedNext]_vars

PairInit ==
  /\ asset_dir \in [{GreetingsFile} -> Formats]
  /\ InitEngine
  /\ InitStreams
  /\ active = Streams

PairStep(s) ==
  \/ PushText(s, <<"H", "i">>)
  \/ EndInput(s)
  \/ AClose(s)
  \/ IterStart(s)
  \/ IterPoll(s)
  \/ IterPull(s)
  \/ IterPace(s)
  \/ SynthesizeFinalize(s)

PairNext == \E s \in Streams : PairStep(s)

\* Two streams of one engine, each with its user and its consumer.
SpecPair == PairInit /\ [][PairNext]_vars

\* greetings.wav is missing, or is mono at 50 Hz with two samples.
EmitInit ==
  /\ asset_dir \in {dir \in AssetDirs :
                      \A f \in DOMAIN dir :
                        dir[f] = [rate |-> 50, channels |-> 1, nframes |-> 2]}
  /\ InitEngine
  /\ InitStreams
  /\ active = {}

EmitNext ==
  \/ \E event \in Events, cb \in Callbacks : Register(event, cb)
  \/ \E event \in Events, data \in DataValues : EmitCall(event, data)
  \/ DirectSynthesize(GreetingsFile)
  \/ DirectPull
  \/ DirectWake

\* The engine as an event emitter: subscribers are registered, events are
\* emitted from outside and by synthesize().
SpecEmit == EmitInit /\ [][EmitNext]_vars

\* ------------------------------------------------------------------ claims

\* The frames handed to caller c, and the metrics events of its calls.
FramesOf(c) == SelectSeq(emitted[c], IsFrame)
MetricsOf(c) == SelectSeq(emitted[c], IsMetrics)

\* The frames of call n among them.
CountFrames(c, n) ==
  Cardinality({k \in 1..Len(emitted[c]) :
                 IsFrame(emitted[c][k]) /\ emitted[c][k].call = n})

\* aclose() has been called on stream s.
Aclosed(s) == closes[s].user + closes[s].iter > 0

\* C1: once aclose() has been called on a stream, no step changes its
\* accumulator, which is empty, and no step hands a further frame to its
\* consumer.
C1_ClosedStreamIsInert ==
  [][\A s \in Streams :
       Aclosed(s) =>
         /\ accumulated_text[s] = <<>>
         /\ accumulated_text'[s] = <<>>
         /\ SelectSeq(emitted'[s], IsFrame) = SelectSeq(emitted[s], IsFrame)]_vars

\* The user closed the stream between two frames of an utterance, and the
\* frame synthesize() yielded after that was dropped.
C1_Witness ==
  /\ closes["s1"].user >= 1
  /\ closes["s1"].iter = 0
  /\ syn["s1"].after_stop >= 1
  /\ iter_pc["s1"] = "done"
  /\ Len(FramesOf("s1")) >= 1

Increasing(seq) == \A i, j \in 1..Len(seq) : i < j => seq[i] < seq[j]
NonDecreasing(seq) == \A i, j \in 1..Len(seq) : i < j => seq[i] <= seq[j]

\* The frames a synthesize() call of the file yields when it runs to its end.
FullFrames(dir, filename) ==
  IF filename \notin DOMAIN dir THEN 0
  ELSE LET step == FrameSize(dir[filename].rate) * dir[filename].channels
           len == dir[filename].nframes * dir[filename].channels
       IN IF step = 0 THEN 0 ELSE (len + step - 1) \div step

RECURSIVE CallsOf(_)
CallsOf(entries) ==
  IF entries = <<>> THEN <<>> ELSE <<Head(entries).call>> \o CallsOf(Tail(entries))

FrameTags(c) == CallsOf(FramesOf(c))

\* C2: the iteration pops the entries in the order of the end_input() calls
\* that queued them (what it has popped is older than what is queued), the
\* frames it forwards are grouped by utterance in that order, and every
\* utterance but the one being synthesized has had all its frames forwarded.
C2_UtterancesInFifoOrder ==
  \A s \in Streams :
    /\ Increasing(popped[s] \o queue_ids[s])
    /\ NonDecreasing(FrameTags(s))
    /\ \A k \in 1..Len(FrameTags(s)) :
         \E j \in 1..Len(popped[s]) : popped[s][j] = FrameTags(s)[k]
    /\ \A j \in 1..(Len(popped[s]) - 1) :
         CountFrames(s, popped[s][j]) = FullFrames(asset_dir, GreetingsFile)

\* Two utterances of several frames each were synthesized one after the other.
C2_Witness ==
  /\ popped["s1"] = <<1, 2>>
  /\ CountFrames("s1", 1) >= 2
  /\ CountFrames("s1", 2) >= 2

\* C3: on a fresh stream, fragments pushed and then one end_input() leave
\* one queue entry, the concatenation of the fragments in push order,
\* stripped (when that is not empty).
C3_OneStrippedEntry ==
  \A s \in Streams :
    (/\ nends[s] = 1
     /\ ~Aclosed(s)
     /\ popped[s] = <<>>
     /\ Strip(pushed[s]) # <<>>)
    => text_queue[s] = <<Strip(pushed[s])>>

\* " ", "Hi" and " " were pushed: the entry is "Hi".
C3_Witness ==
  /\ nends["s1"] = 1
  /\ pushed["s1"] = <<" ", "H", "i", " ">>
  /\ text_queue["s1"] = <<(<<"H", "i">>)>>

\* end_input() has been called on stream s, and every fragment pushed
\* before it was empty or whitespace.
OnlyWhitespaceEnded(s) == nends[s] >= 1 /\ Strip(pushed[s]) = <<>>

\* C4: after end_input() on fragments that are all empty or whitespace,
\* the queue is empty, no synthesize() call is made and no frame is handed
\* over, and the iteration ends.
C4_WhitespaceSynthesizesNothing ==
  /\ [](OnlyWhitespaceEnded("s1") =>
          /\ text_queue["s1"] = <<>>
          /\ ncalls["s1"] = 0
          /\ emitted["s1"] = <<>>
          /\ iter_pc["s1"] \in {"init", "poll", "done"})
  /\ (OnlyWhitespaceEnded("s1") ~> iter_pc["s1"] = "done")

\* Two blanks were pushed, input was ended, and the iteration is over
\* without any synthesize() call.
C4_Witness ==
  /\ pushed["s1"] = <<" ", " ">>
  /\ nends["s1"] >= 1
  /\ closes["s1"] = [user |-> 0, iter |-> 1]
  /\ iter_pc["s1"] = "done"
  /\ ncalls["s1"] = 0

CeilDiv(a, b) == (a + b - 1) \div b

\* C5: a synthesize() call that ran to its end on an asset of N samples per
\* channel at rate R has yielded ceil(50 * N / R) frames.
C5_FrameCountIsCeilOfDuration ==
  (syn[Direct].pc = "done" /\ syn[Direct].filename \in DOMAIN asset_dir)
  => CountFrames(Direct, ncalls[Direct])
       = CeilDiv(50 * asset_dir[syn[Direct].filename].nframes,
                 asset_dir[syn[Direct].filename].rate)

\* C6: every frame synthesize() yields, one call at a time, carries
\* samples_per_channel * num_channels samples, and samples_per_channel is
\* the asset's 20 ms frame size.
C6_FramePayloadIsExact ==
  \A k \in 1..Len(FramesOf(Direct)) :
    LET f == FramesOf(Direct)[k].item
        asset == asset_dir[GreetingsFile]
    IN /\ Len(f.data) = f.samples_per_channel * f.num_channels
       /\ f.samples_per_channel = FrameSize(asset.rate)
       /\ f.num_channels = asset.channels

\* A call ran to its end and its last frame was padded with a zero.
C6_Witness ==
  /\ syn[Direct].pc = "done"
  /\ Len(FramesOf(Direct)) >= 2
  /\ LET f == FramesOf(Direct)[Len(FramesOf(Direct))].item
     IN f.data[Len(f.data)] = 0 /\ f.data[1] # 0

\* C7: synthesize() of a file that is not there emits nothing (no frame, no
\* metrics event), ends without an exception and leaves sample_rate and
\* num_channels as they were.
C7_MissingFileIsSilent ==
  [][\A f \in Files :
       (f \notin DOMAIN asset_dir /\ DirectSynthesize(f)) =>
         /\ emitted' = emitted
         /\ sample_rate' = sample_rate
         /\ num_channels' = num_channels
         /\ syn'[Direct].pc = "done"
         /\ ~syn'[Direct].raised]_vars

\* A call decoded greetings.wav, and the next call was for a file that is
\* not there: the format is still that of greetings.wav.
C7_Witness ==
  /\ ncalls[Direct] = 2
  /\ syn[Direct].filename = OtherFile
  /\ syn[Direct].pc = "done"
  /\ sample_rate # DefaultSampleRate
  /\ num_channels # DefaultNumChannels
  /\ Len(MetricsOf(Direct)) = 1

\* C8: each synthesize() call that decodes its asset emits one metrics
\* event, before the first frame of the call; its num_chars is the length
\* of the filename and its cost_usd is zero. The events of a stream are
\* those of the utterances it popped, in order.
C8_OneMetricsEventAheadOfFrames ==
  \A s \in Streams :
    /\ Len(MetricsOf(s)) = IF GreetingsFile \in DOMAIN asset_dir THEN ncalls[s] ELSE 0
    /\ \A k \in 1..Len(MetricsOf(s)) :
         /\ MetricsOf(s)[k].call = popped[s][k]
         /\ MetricsOf(s)[k].item.num_chars = Len(GreetingsFile)
         /\ MetricsOf(s)[k].item.cost_usd = 0
    /\ \A i \in 1..Len(emitted[s]) :
         IsFrame(emitted[s][i]) =>
           \E j \in 1..(i - 1) :
             IsMetrics(emitted[s][j]) /\ emitted[s][j].call = emitted[s][i].call

\* Two utterances were synthesized in sequence, with frames forwarded.
C8_Witness ==
  /\ ncalls["s1"] = 2
  /\ Len(MetricsOf("s1")) = 2
  /\ CountFrames("s1", 1) >= 1
  /\ CountFrames("s1", 2) >= 1

\* C9: a synthesize() call that a stop() found between two of its frames
\* yields no frame after that stop().
C9_StopCancelsEmission == \A c \in Callers : syn[c].after_stop = 0

\* C10: once end_input() has been called the iteration ends; when it has
\* ended the stream is closed, its queue and accumulator are empty and the
\* engine's stop() has been called; the iteration calls aclose() at most
\* once, only on a stream that is not closed, having popped every queued
\* utterance, and then every utterance it popped has had all its frames
\* forwarded.
C10_IterationEndsAndClosesOnce ==
  /\ (nends["s1"] >= 1) ~> (iter_pc["s1"] = "done")
  /\ [](iter_pc["s1"] = "done" =>
          /\ closed["s1"]
          /\ text_queue["s1"] = <<>>
          /\ accumulated_text["s1"] = <<>>
          /\ stop_calls >= 1)
  /\ [](closes["s1"].iter <= 1)
  /\ [](closes["s1"].iter = 1 =>
          /\ iter_pc["s1"] = "done"
          /\ \A j \in 1..Len(popped["s1"]) :
               CountFrames("s1", popped["s1"][j]) = FullFrames(asset_dir, GreetingsFile))
  /\ [][closes'["s1"].iter # closes["s1"].iter =>
          /\ ~closed["s1"]
          /\ ~Aclosed("s1")
          /\ popped'["s1"] = popped["s1"] \o queue_ids["s1"]]_vars

\* The iteration ran two utterances to their end and closed the stream
\* itself; the user never called aclose().
C10_Witness ==
  /\ iter_pc["s1"] = "done"
  /\ closes["s1"] = [user |-> 0, iter |-> 1]
  /\ popped["s1"] = <<1, 2>>
  /\ Len(FramesOf("s1")) >= 4
  /\ stop_calls = 1

\* The files of the synthesize() calls that the step started and that did
\* not end through the except clause in it.
SucceededInStep ==
  {f \in DOMAIN asset_dir :
     \E c \in Callers :
       ncalls'[c] # ncalls[c] /\ syn'[c].filename = f /\ ~syn'[c].raised}

\* get_sample_rate()
GetSampleRate == sample_rate

\* C11: get_sample_rate() returns 24000 as long as no synthesize() call has
\* decoded an asset; a step in which a call succeeds in decoding an asset
\* makes it return the rate of that asset, and every other step (a call
\* that fails included) leaves what it returns unchanged.
C11_SampleRateIsLastSuccessful ==
  /\ []((\A c \in Callers : MetricsOf(c) = <<>>) => GetSampleRate = DefaultSampleRate)
  /\ [][IF SucceededInStep = {}
        THEN GetSampleRate' = GetSampleRate
        ELSE \A f \in SucceededInStep : GetSampleRate' = asset_dir[f].rate]_vars

\* The frame carries the sample rate and the channel count of the asset.
HasFormatOf(frame, asset) ==
  frame.sample_rate = asset.rate /\ frame.num_channels = asset.channels

\* C12: every frame a synthesize() call yields carries the sample rate and
\* the channel count of the asset that the call read, whatever other call
\* on the same engine runs between its frames.
C12_FramesCarryTheirAssetFormat ==
  /\ \A s \in Streams : \A k \in 1..Len(FramesOf(s)) :
       HasFormatOf(FramesOf(s)[k].item, asset_dir[GreetingsFile])
  /\ \A k \in 1..Len(FramesOf(Direct)) :
       FramesOf(Direct)[k].call = ncalls[Direct] =>
         HasFormatOf(FramesOf(Direct)[k].item, asset_dir[syn[Direct].filename])

\* C13: on a stream that has not been closed and from which the iteration
\* has popped nothing, the queue holds at most one utterance, however many
\* times end_input() has been called.
C13_QueueHoldsOneUtterance ==
  \A s \in Streams :
    (~Aclosed(s) /\ popped[s] = <<>>) => Len(text_queue[s]) <= 1

\* The metrics events and the frames of the direct caller's latest call.
LatestOf(c) == SelectSeq(emitted[c], LAMBDA e : e.call = ncalls[c])

\* C14: a synthesize() call that ended through its except clause has
\* emitted no metrics event and yielded no frame.
C14_ErrorPathEmitsNothing ==
  (syn[Direct].pc = "done" /\ syn[Direct].raised) => LatestOf(Direct) = <<>>

\* The payloads of the frames, one after the other.
RECURSIVE Payload(_)
Payload(entries) ==
  IF entries = <<>> THEN <<>> ELSE Head(entries).item.data \o Payload(Tail(entries))

\* C15: when a synthesize() call that decoded its asset is over, the
\* payloads of the frames it yielded, one after the other, are the decoded
\* buffer followed by fewer than frame_size * num_channels zeros.
C15_PayloadIsBufferThenPadding ==
  (/\ syn[Direct].pc = "done"
   /\ syn[Direct].filename \in DOMAIN asset_dir
   /\ IsWave(asset_dir[syn[Direct].filename])
   /\ ~ReadFails(asset_dir[syn[Direct].filename]))
  => LET asset == asset_dir[syn[Direct].filename]
         buffer == Samples(asset)
         whole == FrameSize(asset.rate) * asset.channels
     IN \E padding \in 0..(whole - 1) :
          Payload(SelectSeq(LatestOf(Direct), IsFrame)) = buffer \o Zeros(padding)

\* C16: in every state, so whenever a synthesize() call is suspended at a
\* yield or in a sleep, is over (normally or through an error), and after
\* any stop(), no call holds an open file and the engine's _current_audio
\* is None.
C16_NoFileStaysOpen ==
  /\ current_audio = "None"
  /\ \A c \in Callers : ~syn[c].wav_open

\* The stream's call is suspended at its yield, the direct caller's call
\* ended through an error, and stop() has been called.
C16_Witness ==
  /\ syn["s1"].pc = "yielded"
  /\ syn[Direct].pc = "done"
  /\ syn[Direct].raised
  /\ stop_calls >= 1

\* The fields of stream t.
StreamFields(t) == <<accumulated_text[t], text_queue[t], ended[t], closed[t]>>

\* C17: push_text, end_input and aclose on one stream leave the
\* accumulator, the queue and the flags of the other stream unchanged; and
\* a stream that its user never closed and whose iteration is over has had
\* all the frames of every utterance it popped forwarded, whatever was done
\* to the other stream meanwhile.
C17_StreamsAreIndependent ==
  /\ [][\A s \in Streams :
          ((\E text \in Fragments : PushText(s, text)) \/ EndInput(s) \/ AClose(s))
          => \A t \in Streams \ {s} : StreamFields(t)' = StreamFields(t)]_vars
  /\ [](\A t \in Streams :
          (closes[t].user = 0 /\ iter_pc[t] = "done") =>
            \A j \in 1..Len(popped[t]) :
              CountFrames(t, popped[t][j]) = FullFrames(asset_dir, GreetingsFile))

\* The user closed s1 while s2 was between two frames; s2, never closed by
\* its user, went on to the end of its utterance.
C17_Witness ==
  /\ closes["s1"] = [user |-> 1, iter |-> 0]
  /\ closes["s2"] = [user |-> 0, iter |-> 1]
  /\ syn["s2"].stopped
  /\ syn["s2"].after_stop >= 1
  /\ popped["s2"] = <<1>>
  /\ CountFrames("s2", 1) = FullFrames(asset_dir, GreetingsFile)
  /\ accumulated_text["s1"] = <<>>

\* C18: as long as end_input() has not been called on a stream, its queue
\* is empty, its iteration has made no synthesize() call and nothing (no
\* frame, no metrics event) has come out of it, whatever was pushed and
\* however often the iteration has polled.
C18_NoSynthesisWhileOpen ==
  \A s \in Streams :
    nends[s] = 0 =>
      /\ text_queue[s] = <<>>
      /\ ncalls[s] = 0
      /\ syn[s].pc = "none"
      /\ emitted[s] = <<>>

\* Text of the greatest length was pushed and the iteration is polling;
\* end_input() has not been called.
C18_Witness ==
  /\ nends["s1"] = 0
  /\ ~closed["s1"]
  /\ Len(accumulated_text["s1"]) = MaxText
  /\ Strip(accumulated_text["s1"]) # <<>>
  /\ iter_pc["s1"] = "poll"
  /\ ncalls["s1"] = 0

\* C19: every aclose(), the user's or the iteration's own, from whatever
\* state, leaves the stream closed with an empty queue and an empty
\* accumulator and has called the engine's stop(); and from then on,
\* whatever is called on the stream, it stays closed and its queue and
\* accumulator stay empty.
C19_ClosedIsAbsorbing ==
  /\ [][\A s \in Streams :
          closes'[s] # closes[s] =>
            /\ closed'[s]
            /\ text_queue'[s] = <<>>
            /\ accumulated_text'[s] = <<>>
            /\ stop_calls' = stop_calls + 1]_vars
  /\ [](\A s \in Streams :
          Aclosed(s) =>
            closed[s] /\ text_queue[s] = <<>> /\ accumulated_text[s] = <<>>)

\* Text was pushed, the stream was closed, and then push_text, end_input
\* (its first call, so the text was never queued before) and aclose were
\* called on it: nothing is queued.
C19_Witness ==
  /\ Strip(pushed["s1"]) # <<>>
  /\ late["s1"] = {"push_text", "end_input", "aclose"}
  /\ nends["s1"] = 1
  /\ ended["s1"]
  /\ closed["s1"]
  /\ text_queue["s1"] = <<>>

\* The callbacks registered for the event, in registration order.
Registered(event) == IF event \in DOMAIN events THEN events[event] ELSE <<>>

\* One call of each of them, in that order, with the data (with nothing
\* when the data is None).
OneCallOfEach(event, data) ==
  [k \in 1..Len(Registered(event)) |->
     [callback |-> Registered(event)[k].name,
      args |-> IF data = NoData THEN <<>> ELSE <<data>>,
      raised |-> Registered(event)[k].raises]]

\* C20: on() puts the callback last among those of its event; emit() calls
\* each callback registered for the event once, in registration order and
\* before it returns, whether or not one of them raises; and a
\* synthesize() call that decodes an asset with samples calls the
\* subscribers of metrics_collected in the same way and then yields its
\* first frame.
C20_EmitCallsEveryCallbackInOrder ==
  /\ [][\A event \in Events, cb \in Callbacks :
          Register(event, cb) => Registered(event)' = Append(Registered(event), cb)]_vars
  /\ [][\A event \in Events, data \in DataValues :
          EmitCall(event, data) => invoked' = invoked \o OneCallOfEach(event, data)]_vars
  /\ [][(DirectSynthesize(GreetingsFile) /\ GreetingsFile \in DOMAIN asset_dir) =>
          /\ invoked' = invoked \o
               OneCallOfEach(MetricsCollected,
                             Metrics(TTSMetrics(GreetingsFile, asset_dir[GreetingsFile])))
          /\ syn'[Direct].pc = "yielded"
          /\ ~syn'[Direct].raised
          /\ Len(SelectSeq(emitted'[Direct], IsFrame))
               = Len(SelectSeq(emitted[Direct], IsFrame)) + 1]_vars

\* A subscriber of metrics_collected that raises was registered before one
\* that returns; synthesize() called both, in that order, and went on to
\* the end of its frames.
C20_Witness ==
  /\ GreetingsFile \in DOMAIN asset_dir
  /\ emit_calls = 0
  /\ Registered(MetricsCollected) = <<[name |-> "bad", raises |-> TRUE],
                                      [name |-> "good", raises |-> FALSE]>>
  /\ Len(invoked) = 2
  /\ invoked[1].callback = "bad" /\ invoked[1].raised
  /\ invoked[2].callback = "good"
  /\ invoked[2].args =
       <<Metrics(TTSMetrics(GreetingsFile, asset_dir[GreetingsFile]))>>
  /\ syn[Direct].pc = "done"
  /\ Len(FramesOf(Direct)) = 2

====
